---- MODULE Spec2Model ----
(***************************************************************************)
(* Model of pliers/extractors/models.py: extractor classes that wrap       *)
(* pretrained models (TensorFlow Hub layers and Keras applications).       *)
(*                                                                         *)
(* The state is the adapter instance a caller holds, the number of model   *)
(* loads that instance has performed, the stimuli, and a record of the     *)
(* last call (constructor or extract) with its outcome, the collaborators  *)
(* it invoked and the array it handed to the model.                        *)
(*                                                                         *)
(* Constructor calls are modelled with their positional arguments, bound   *)
(* to the parameters of the signature as Python binds them.  Arrays are    *)
(* modelled by their shape and origin; pretrained networks are opaque      *)
(* functions of their input.                                               *)
(***************************************************************************)
EXTENDS Integers, Sequences, FiniteSets, TLC

VARIABLES adapter, loads, stims, last

vars == <<adapter, loads, stims, last>>

----------------------------------------------------------------------------
(* Bounds *)

\* widest output of a hub model
MaxWidth == 2
\* largest num_predictions a caller passes explicitly
MaxTop == 3
\* number of classes decode_predictions knows (stands for ImageNet's 1000)
NumClasses == 2
\* largest number of labels a caller supplies
MaxLabels == 2

----------------------------------------------------------------------------
(* Python values *)

None == "None"

\* Optional[list]: None or a list
NoneList == [none |-> TRUE, items |-> <<>>]
List(s) == [none |-> FALSE, items |-> s]

\* truth value of an Optional[list] (None and [] are falsy)
Truthy(l) == ~l.none /\ Len(l.items) > 0

\* pliers.utils.listify on a string or None / on a list or None
ListifyStr(s) == IF s = None THEN NoneList ELSE List(<<s>>)
ListifyList(l) == l

Min(a, b) == IF a < b THEN a ELSE b

\* outcomes of a call
Ok == [kind |-> "ok"]
Raise(type, msg) == [kind |-> type, msg |-> msg]
Return(r) == [kind |-> "result", result |-> r]

\* what a method leaves behind: the instance, the stimulus, the number of
\* models it loaded, its outcome, the collaborators it invoked in order and
\* the shape of the array it handed to the model (<<>> if none)
Done(self, stim, n, outcome, trace, fed) ==
    [self |-> self, stim |-> stim, loads |-> n, outcome |-> outcome,
     trace |-> trace, fed |-> fed]

----------------------------------------------------------------------------
(* Classes *)

TFHubExtractor == "TFHubExtractor"
TFHubImageExtractor == "TFHubImageExtractor"
TFHubImageEmbeddingExtractor == "TFHubImageEmbeddingExtractor"
TFHubImageClassificationExtractor == "TFHubImageClassificationExtractor"
TFHubTextExtractor == "TFHubTextExtractor"
TFHubTextEmbeddingExtractor == "TFHubTextEmbeddingExtractor"
TensorFlowKerasApplicationExtractor == "TensorFlowKerasApplicationExtractor"

ImageClasses == {TFHubImageExtractor, TFHubImageEmbeddingExtractor,
                 TFHubImageClassificationExtractor}
TextClasses == {TFHubTextExtractor, TFHubTextEmbeddingExtractor}
HubClasses == {TFHubExtractor} \cup ImageClasses \cup TextClasses

NoAdapter == [cls |-> None]

----------------------------------------------------------------------------
(* Stimuli: an array (shape and origin) with onset and duration *)

Array(shape, of) == [shape |-> shape, of |-> of]

Stim(id, shape, onset, duration) ==
    [id |-> id, data |-> Array(shape, id), onset |-> onset,
     duration |-> duration]

\* onsets and durations in tenths of a second
Stimuli ==
    <<Stim(1, <<299, 299, 3>>, 42, 10),
      Stim(2, <<224, 224, 3>>, 0, 5),
      Stim(3, <<100, 150, 3>>, 7, 20),
      Stim(4, <<224, 224, 4>>, 13, 1),
      Stim(5, <<299, 299, 1>>, 21, 2),
      Stim(6, <<224, 224>>, 30, 3),
      Stim(7, <<1, 224, 224, 3>>, 55, 4)>>

StimIds == DOMAIN Stimuli

ndim(x) == Len(x.shape)

\* ImageResizingFilter(size).transform(stim): a new stimulus whose image
\* has the target height and width; channels and metadata are kept
ResizeTransform(size, stim) ==
    [stim EXCEPT !.data.shape =
        [i \in DOMAIN stim.data.shape |->
            IF i <= Len(size) THEN size[i] ELSE stim.data.shape[i]]]

----------------------------------------------------------------------------
(* TensorFlow Hub: a URL names a model; the model at <<"tensor", w>>       *)
(* returns a tensor of width w, the model at <<"keyed", w>> a mapping from *)
(* keys to tensors of width w                                              *)

Urls == {"tensor", "keyed"} \X (1..MaxWidth)

OutputKeys == {"default", "pooled_output", "sequence_output"}

\* hub.KerasLayer(url): loads the model
KerasLayer(url) == [hub |-> url]

\* model(inp)
HubCall(model, inp) ==
    [type |-> IF model.hub[1] = "keyed" THEN "dict" ELSE "tensor",
     width |-> model.hub[2], model |-> model, input |-> inp]

\* tensor.numpy(): one row of width values
Numpy(t) == <<[i \in 1..t.width |-> <<t.model.hub, t.input, i>>]>>

\* ExtractorResult(data, stim, extractor, features)
ExtractorResult(data, stim, self, features) ==
    [data |-> data, stim |-> stim, extractor |-> self.cls,
     features |-> features, onset |-> stim.onset,
     duration |-> stim.duration]

----------------------------------------------------------------------------
(* TFHubExtractor and its subclasses *)

\* TFHubExtractor.__init__(self, url_or_path, task=None, labels=None):
\* url_or_path has no default, so a call without it is a TypeError raised
\* before the body runs
TFHubExtractor_init(cls, args) ==
    IF Len(args) < 1
    THEN Done(NoAdapter, None, 0,
              Raise("TypeError", "missing url_or_path"), <<>>, <<>>)
    ELSE IF Len(args) > 3
    THEN Done(NoAdapter, None, 0,
              Raise("TypeError", "too many positional arguments"),
              <<>>, <<>>)
    ELSE Done([cls |-> cls,
               model |-> KerasLayer(args[1]),
               labels |-> IF Len(args) >= 3 THEN args[3] ELSE NoneList,
               task |-> IF Len(args) >= 2 THEN args[2] ELSE None],
              None, 1, Ok, <<"hub.KerasLayer">>, <<>>)

\* TFHubImageExtractor.__init__(self, rescale_rgb=True, reshape_input=None):
\* calls super().__init__() without arguments
TFHubImageExtractor_init(cls, args) ==
    IF Len(args) > 2
    THEN Done(NoAdapter, None, 0,
              Raise("TypeError", "too many positional arguments"),
              <<>>, <<>>)
    ELSE LET base == TFHubExtractor_init(cls, <<>>)
         IN  IF base.outcome.kind # "ok" THEN base
             ELSE [base EXCEPT !.self =
                     [cls |-> cls, model |-> base.self.model,
                      labels |-> base.self.labels, task |-> base.self.task,
                      rescale_rgb |->
                          IF Len(args) >= 1 THEN args[1] ELSE TRUE,
                      reshape_input |->
                          IF Len(args) >= 2 THEN List(args[2])
                          ELSE NoneList]]

\* TFHubTextExtractor.__init__(self, preprocessor_url_or_path=None):
\* calls super().__init__() without arguments
TFHubTextExtractor_init(cls, args) ==
    IF Len(args) > 1
    THEN Done(NoAdapter, None, 0,
              Raise("TypeError", "too many positional arguments"),
              <<>>, <<>>)
    ELSE LET base == TFHubExtractor_init(cls, <<>>)
         IN  IF base.outcome.kind # "ok" THEN base
             ELSE [base EXCEPT !.self =
                     [cls |-> cls, model |-> base.self.model,
                      labels |-> base.self.labels, task |-> base.self.task,
                      preprocessor_url_or_path |-> args]]

\* TFHubTextEmbeddingExtractor.__init__(self, output_key='default'):
\* calls super().__init__() without arguments
TFHubTextEmbeddingExtractor_init(cls, args) ==
    IF Len(args) > 1
    THEN Done(NoAdapter, None, 0,
              Raise("TypeError", "too many positional arguments"),
              <<>>, <<>>)
    ELSE LET base == TFHubTextExtractor_init(cls, <<>>)
         IN  IF base.outcome.kind # "ok" THEN base
             ELSE [base EXCEPT !.self =
                     [cls |-> cls, model |-> base.self.model,
                      labels |-> base.self.labels, task |-> base.self.task,
                      preprocessor_url_or_path |->
                          base.self.preprocessor_url_or_path,
                      output_key |->
                          IF Len(args) >= 1 THEN args[1] ELSE "default"]]

\* TFHubExtractor._get_feature_names
get_feature_names(self) ==
    IF Truthy(self.labels) THEN self.labels ELSE ListifyStr(self.task)

\* TFHubExtractor._preprocess: yields the input of the model
TFHubExtractor_preprocess(self, stim) ==
    [outcome |-> Ok, value |-> stim.data, loads |-> 0, trace |-> <<>>]

\* TFHubImageExtractor._preprocess: tf.convert_to_tensor has no parameter
\* named type, so the call is a TypeError
TFHubImageExtractor_preprocess(self, stim) ==
    LET resized == Truthy(self.reshape_input)
        x == IF resized
             THEN ResizeTransform(SubSeq(self.reshape_input.items, 1,
                      Len(self.reshape_input.items) - 1), stim).data
             ELSE stim.data
    IN  [outcome |-> Raise("TypeError",
                           "convert_to_tensor: unexpected keyword type"),
         value |-> x, loads |-> 0,
         trace |-> IF resized THEN <<"ImageResizingFilter.transform">>
                   ELSE <<>>]

\* TFHubTextExtractor._preprocess: loads the preprocessor on every call
TFHubTextExtractor_preprocess(self, stim) ==
    LET x == <<stim.data>>
    IN  IF Len(self.preprocessor_url_or_path) > 0
        THEN LET preprocessor ==
                     KerasLayer(self.preprocessor_url_or_path[1])
             IN  [outcome |-> Ok, value |-> HubCall(preprocessor, x),
                  loads |-> 1,
                  trace |-> <<"hub.KerasLayer", "preprocessor">>]
        ELSE [outcome |-> Ok, value |-> x, loads |-> 0, trace |-> <<>>]

\* _preprocess of the class of self
Preprocess(self, stim) ==
    IF self.cls \in ImageClasses
    THEN TFHubImageExtractor_preprocess(self, stim)
    ELSE IF self.cls \in TextClasses
    THEN TFHubTextExtractor_preprocess(self, stim)
    ELSE TFHubExtractor_preprocess(self, stim)

\* TFHubExtractor._postprocess
TFHubExtractor_postprocess(self, out) ==
    [outcome |-> Ok, value |-> out]

\* TFHubTextEmbeddingExtractor._postprocess: indexes the numpy array with
\* the output key, which numpy rejects with an IndexError
TFHubTextEmbeddingExtractor_postprocess(self, out) ==
    [outcome |-> Raise("IndexError", "only integers, slices"),
     value |-> out]

\* _postprocess of the class of self
Postprocess(self, out) ==
    IF self.cls = TFHubTextEmbeddingExtractor
    THEN TFHubTextEmbeddingExtractor_postprocess(self, out)
    ELSE TFHubExtractor_postprocess(self, out)

\* TFHubExtractor._extract
TFHubExtractor_extract(self, stim) ==
    LET features == ListifyList(get_feature_names(self))
        pre == Preprocess(self, stim)
    IN  IF pre.outcome.kind # "ok"
        THEN Done(self, stim, pre.loads, pre.outcome, pre.trace, <<>>)
        ELSE
        LET raw == HubCall(self.model, pre.value)
            trace == pre.trace \o <<"model">>
        IN  IF raw.type = "dict"
            THEN Done(self, stim, pre.loads,
                      Raise("AttributeError",
                            "dict object has no attribute numpy"),
                      trace, <<>>)
            ELSE
            LET post == Postprocess(self, Numpy(raw))
            IN  IF post.outcome.kind # "ok"
                THEN Done(self, stim, pre.loads, post.outcome, trace, <<>>)
                ELSE Done(self, stim, pre.loads,
                          Return(ExtractorResult(post.value, stim, self,
                                                 features)),
                          trace, <<>>)

----------------------------------------------------------------------------
(* TensorFlowKerasApplicationExtractor *)

\* Model name: (model module, model function, required shape)
model_mapping ==
    [vgg16 |-> [module |-> "vgg16", ctor |-> "VGG16",
                shape |-> <<224, 224, 3>>],
     vgg19 |-> [module |-> "vgg19", ctor |-> "VGG19",
                shape |-> <<224, 224, 3>>],
     resnet50 |-> [module |-> "resnet50", ctor |-> "ResNet50",
                   shape |-> <<224, 224, 3>>],
     inception_resnetv2 |-> [module |-> "inception_resnet_v2",
                             ctor |-> "InceptionResNetV2",
                             shape |-> <<299, 299, 3>>],
     inceptionv3 |-> [module |-> "inception_v3", ctor |-> "InceptionV3",
                      shape |-> <<299, 299, 3>>],
     xception |-> [module |-> "xception", ctor |-> "Xception",
                   shape |-> <<299, 299, 3>>],
     densenet121 |-> [module |-> "densenet", ctor |-> "DenseNet121",
                      shape |-> <<224, 224, 3>>],
     densenet169 |-> [module |-> "densenet", ctor |-> "DenseNet169",
                      shape |-> <<224, 224, 3>>],
     densenet201 |-> [module |-> "densenet", ctor |-> "DenseNet201",
                      shape |-> <<224, 224, 3>>],
     nasnetlarge |-> [module |-> "nasnet", ctor |-> "NASNetLarge",
                      shape |-> <<331, 331, 3>>],
     nasnetmobile |-> [module |-> "nasnet", ctor |-> "NASNetMobile",
                       shape |-> <<224, 224, 3>>]]

\* architecture names a caller passes
ArchInputs ==
    DOMAIN model_mapping \cup {"VGG16", "InceptionV3", "foo", "FOO"}

\* str.lower() on the names a caller passes
Lower(s) ==
    CASE s = "VGG16" -> "vgg16"
      [] s = "InceptionV3" -> "inceptionv3"
      [] s = "FOO" -> "foo"
      [] OTHER -> s

\* the model function of an entry, called with weights: builds the network
\* and fetches its weights
LoadApplication(entry, weights) ==
    [app |-> entry.ctor, weights |-> weights, input_shape |-> entry.shape]

\* the name check of __init__: the architecture is looked up in lower case
KnownArchitecture_CaseSensitive(architecture) ==
    architecture \in DOMAIN model_mapping

KnownArchitecture(architecture) ==
    Lower(architecture) \in DOMAIN model_mapping

\* TensorFlowKerasApplicationExtractor.__init__(self,
\*     architecture='inceptionv3', weights=None, num_predictions=5)
Keras_init(cls, args) ==
    LET arch == IF Len(args) >= 1 THEN args[1] ELSE "inceptionv3"
        w0 == IF Len(args) >= 2 THEN args[2] ELSE None
        top == IF Len(args) >= 3 THEN args[3] ELSE 5
        w == IF w0 = None THEN "imagenet" ELSE w0
    IN  IF Len(args) > 3
        THEN Done(NoAdapter, None, 0,
                  Raise("TypeError", "too many positional arguments"),
                  <<>>, <<>>)
        ELSE IF ~KnownArchitecture(arch)
        THEN Done(NoAdapter, None, 0,
                  Raise("ValueError", "Unknown architecture"), <<>>, <<>>)
        ELSE LET a == Lower(arch)
             IN  Done([cls |-> cls,
                       architecture |-> a,
                       weights |-> w,
                       num_predictions |-> top,
                       model_module |-> model_mapping[a].module,
                       model |-> LoadApplication(model_mapping[a], w),
                       required_shape |-> model_mapping[a].shape],
                      None, 1, Ok, <<model_mapping[a].ctor>>, <<>>)

\* x[None]: adds the batch dimension
AddBatch(x) == [x EXCEPT !.shape = <<1>> \o x.shape]

\* module.preprocess_input(x): normalises the values, keeps the shape
preprocess_input(module, x) == x

\* model.predict accepts batches of the network's input shape only
PredictAccepts(model, x) == x.shape = <<1>> \o model.input_shape

\* module.decode_predictions(preds, top)[0]: the top classes of the one
\* sample, as (ID, label, probability)
decode_predictions(model, x, top) ==
    [i \in 1..Min(IF top > 0 THEN top ELSE 0, NumClasses) |->
        <<i, <<"label", model.app, x.of, i>>, <<"prob", model.app, x.of, i>>>>]

\* the rank check of _extract
RankOk_AtLeast(x) == ndim(x) >= 3

RankOk(x) == ndim(x) = 3

\* the shape check of _extract
NeedsResize_HeightWidth(self, x) ==
    SubSeq(x.shape, 1, 2) # SubSeq(self.required_shape, 1, 2)

NeedsResize(self, x) == x.shape # self.required_shape

\* the resizing step of _extract: the resized stimulus
Keras_resized(self, stim) ==
    ResizeTransform(SubSeq(self.required_shape, 1,
                           Len(self.required_shape) - 1), stim)

\* the result of _extract: probabilities as values, labels as feature
\* names, for the stimulus that was passed in
Keras_result_OfResized(self, stim, resized, decoded) ==
    ExtractorResult(<<[i \in DOMAIN decoded |-> decoded[i][3]]>>, resized,
                    self, List([i \in DOMAIN decoded |-> decoded[i][2]]))

\* a variant that names only the top prediction
Keras_result_TopLabel(self, stim, resized, decoded) ==
    ExtractorResult(<<[i \in DOMAIN decoded |-> decoded[i][3]]>>, stim,
                    self, List(SubSeq([i \in DOMAIN decoded |->
                                          decoded[i][2]], 1, 1)))

Keras_result(self, stim, resized, decoded) ==
    LET values == [i \in DOMAIN decoded |-> decoded[i][3]]
        features == [i \in DOMAIN decoded |-> decoded[i][2]]
    IN  ExtractorResult(<<values>>, stim, self, List(features))

\* a variant of _extract that keeps the number of decoded predictions in
\* the instance
Keras_extract_Stateful(self, stim) ==
    LET x0 == stim.data
    IN  IF ~RankOk(x0)
        THEN Done([self EXCEPT !.num_predictions = 0], stim, 0,
                  Raise("ValueError",
                        <<"Stim data must have rank 3 but got rank",
                          ndim(x0)>>),
                  <<>>, <<>>)
        ELSE
        LET resize == NeedsResize(self, x0)
            resized == IF resize THEN Keras_resized(self, stim) ELSE stim
            x2 == preprocess_input(self.model_module, AddBatch(resized.data))
            trace == (IF resize THEN <<"ImageResizingFilter.transform">>
                      ELSE <<>>) \o <<"preprocess_input", "predict">>
        IN  IF ~PredictAccepts(self.model, x2)
            THEN Done(self, stim, 0,
                      Raise("ModelError", "incompatible input shape"),
                      trace, x2.shape)
            ELSE
            LET decoded == decode_predictions(self.model, x2,
                                              self.num_predictions)
            IN  Done([self EXCEPT !.num_predictions = Len(decoded)],
                     stim, 0,
                     Return(Keras_result(self, stim, resized, decoded)),
                     trace \o <<"decode_predictions">>, x2.shape)

\* TensorFlowKerasApplicationExtractor._extract
Keras_extract(self, stim) ==
    LET x0 == stim.data
    IN  IF ~RankOk(x0)
        THEN Done(self, stim, 0,
                  Raise("ValueError",
                        <<"Stim data must have rank 3 but got rank",
                          ndim(x0)>>),
                  <<>>, <<>>)
        ELSE
        LET resize == NeedsResize(self, x0)
            resized == IF resize THEN Keras_resized(self, stim) ELSE stim
            x2 == preprocess_input(self.model_module, AddBatch(resized.data))
            trace == (IF resize THEN <<"ImageResizingFilter.transform">>
                      ELSE <<>>) \o <<"preprocess_input", "predict">>
        IN  IF ~PredictAccepts(self.model, x2)
            THEN Done(self, stim, 0,
                      Raise("ModelError", "incompatible input shape"),
                      trace, x2.shape)
            ELSE
            LET decoded == decode_predictions(self.model, x2,
                                              self.num_predictions)
            IN  Done(self, stim, 0,
                     Return(Keras_result(self, stim, resized, decoded)),
                     trace \o <<"decode_predictions">>, x2.shape)

----------------------------------------------------------------------------
(* The state machine: a caller constructs adapters and calls extract *)

Tasks == {None, "embedding"}

LabelLists ==
    {NoneList} \cup
    {List([i \in 1..n |-> <<"label", i>>]) : n \in 0..MaxLabels}

Init ==
    /\ adapter = NoAdapter
    /\ loads = 0
    /\ stims = Stimuli
    /\ last = [op |-> "none", cls |-> None, args |-> <<>>, stim |-> 0,
               outcome |-> Ok, trace |-> <<>>, fed |-> <<>>, loads |-> 0]

\* the record of a call
Called(op, cls, args, sid, r) ==
    [op |-> op, cls |-> cls, args |-> args, stim |-> sid,
     outcome |-> r.outcome, trace |-> r.trace, fed |-> r.fed,
     loads |-> r.loads]

\* a constructor call ended: the caller holds the new instance unless the
\* constructor raised
Constructed(r) ==
    /\ adapter' = IF r.outcome.kind = "ok" THEN r.self ELSE adapter
    /\ loads' = IF r.outcome.kind = "ok" THEN r.loads ELSE loads
    /\ UNCHANGED stims

\* an extract call on the caller's instance ended
Extracted(sid, r) ==
    /\ adapter' = r.self
    /\ loads' = loads + r.loads
    /\ stims' = [stims EXCEPT ![sid] = r.stim]

\* the positional arguments callers pass to each constructor
TFHubExtractorArgs ==
    {<<url>> : url \in Urls}
    \cup {<<url, task>> : url \in Urls, task \in Tasks}
    \cup {<<url, task, labels>> :
             url \in Urls, task \in Tasks, labels \in LabelLists}

TFHubImageExtractorArgs ==
    {<<>>}
    \cup {<<first>> : first \in Urls}
    \cup {<<first, <<224, 224, 3>>>> : first \in Urls}

TFHubTextExtractorArgs == {<<>>} \cup {<<url>> : url \in Urls}

TFHubTextEmbeddingExtractorArgs ==
    {<<>>} \cup {<<key>> : key \in OutputKeys \cup {"key"}}

KerasArgs ==
    {<<>>}
    \cup {<<architecture>> : architecture \in ArchInputs}
    \cup {<<architecture, weights, top>> :
             architecture \in ArchInputs, weights \in {None, "weights.h5"},
             top \in 0..MaxTop}

InitTFHubExtractor ==
    \E args \in TFHubExtractorArgs :
        LET cls == TFHubExtractor
            r == TFHubExtractor_init(cls, args)
        IN  /\ Constructed(r)
            /\ last' = Called("init", cls, args, 0, r)

InitTFHubImageExtractor ==
    \E cls \in ImageClasses, args \in TFHubImageExtractorArgs :
        LET r == TFHubImageExtractor_init(cls, args)
        IN  /\ Constructed(r)
            /\ last' = Called("init", cls, args, 0, r)

InitTFHubTextExtractor ==
    \E args \in TFHubTextExtractorArgs :
        LET cls == TFHubTextExtractor
            r == TFHubTextExtractor_init(cls, args)
        IN  /\ Constructed(r)
            /\ last' = Called("init", cls, args, 0, r)

InitTFHubTextEmbeddingExtractor ==
    \E args \in TFHubTextEmbeddingExtractorArgs :
        LET cls == TFHubTextEmbeddingExtractor
            r == TFHubTextEmbeddingExtractor_init(cls, args)
        IN  /\ Constructed(r)
            /\ last' = Called("init", cls, args, 0, r)

InitKeras ==
    \E args \in KerasArgs :
        LET cls == TensorFlowKerasApplicationExtractor
            r == Keras_init(cls, args)
        IN  /\ Constructed(r)
            /\ last' = Called("init", cls, args, 0, r)

ExtractTFHub ==
    /\ adapter.cls \in HubClasses
    /\ \E sid \in StimIds :
           LET r == TFHubExtractor_extract(adapter, stims[sid])
           IN  /\ Extracted(sid, r)
               /\ last' = Called("extract", adapter.cls, <<>>, sid, r)

ExtractKeras ==
    /\ adapter.cls = TensorFlowKerasApplicationExtractor
    /\ \E sid \in StimIds :
           LET r == Keras_extract(adapter, stims[sid])
           IN  /\ Extracted(sid, r)
               /\ last' = Called("extract", adapter.cls, <<>>, sid, r)

Next ==
    \/ InitTFHubExtractor
    \/ InitTFHubImageExtractor
    \/ InitTFHubTextExtractor
    \/ InitTFHubTextEmbeddingExtractor
    \/ InitKeras
    \/ ExtractTFHub
    \/ ExtractKeras

Spec == Init /\ [][Next]_vars

----------------------------------------------------------------------------
(* Properties *)

Keras == TensorFlowKerasApplicationExtractor

InitOf(classes) == last.op = "init" /\ last.cls \in classes

ExtractBy(classes) == last.op = "extract" /\ last.cls \in classes

Invoked(e) == \E i \in DOMAIN last.trace : last.trace[i] = e

\* the architecture name of the last constructor call
RequestedArchitecture ==
    IF Len(last.args) >= 1 THEN last.args[1] ELSE "inceptionv3"

\* the stimulus of the last extract call, as it was before the call
LastStim == Stimuli[last.stim]

\* C1 as stated: constructing the fixed-architecture adapter with a name
\* that is not in the enumerated set raises ValueError before any model is
\* loaded, and a name in the set never raises it.
C1_Original ==
    InitOf({Keras}) =>
        /\ RequestedArchitecture \notin DOMAIN model_mapping =>
               /\ last.outcome.kind = "ValueError"
               /\ last.loads = 0
               /\ last.trace = <<>>
        /\ RequestedArchitecture \in DOMAIN model_mapping =>
               last.outcome.kind # "ValueError"

\* C1 amended: the name is compared in lower case.  A name whose lower-case
\* form is not in the enumerated set raises ValueError with no model
\* constructor invoked and the caller's instance untouched; a name whose
\* lower-case form is in the set does not raise it and loads one model.
C1_UnknownArchitecture ==
    InitOf({Keras}) =>
        /\ Lower(RequestedArchitecture) \notin DOMAIN model_mapping =>
               /\ last.outcome.kind = "ValueError"
               /\ last.loads = 0
               /\ last.trace = <<>>
        /\ Lower(RequestedArchitecture) \in DOMAIN model_mapping =>
               /\ last.outcome.kind = "ok"
               /\ last.loads = 1
               /\ adapter.architecture = Lower(RequestedArchitecture)

C1_Witness ==
    /\ InitOf({Keras})
    /\ RequestedArchitecture = "foo"
    /\ last.outcome.kind = "ValueError"

\* C2 as stated: a text adapter configured with an output key exists, and
\* its extract raises ValueError "Check which keys" when the model's keyed
\* output lacks the key and ValueError "not a dictionary" when the output
\* is not keyed; no result is returned.
C2_Original ==
    /\ (InitOf({TFHubTextEmbeddingExtractor}) /\ Len(last.args) = 1) =>
           /\ last.outcome.kind = "ok"
           /\ adapter.output_key = last.args[1]
    /\ ExtractBy({TFHubTextEmbeddingExtractor}) =>
           /\ (adapter.model.hub[1] = "keyed"
               /\ adapter.output_key \notin OutputKeys) =>
                  last.outcome = Raise("ValueError", "Check which keys")
           /\ adapter.model.hub[1] # "keyed" =>
                  last.outcome = Raise("ValueError", "not a dictionary")

C4_Original ==
    (InitOf(ImageClasses \cup {TFHubTextExtractor})
     /\ Len(last.args) >= 1) =>
        /\ last.outcome.kind = "ok"
        /\ adapter.cls = last.cls
        /\ adapter.model = KerasLayer(last.args[1])

\* C5: a result refers to the stimulus that was passed in, its onset and
\* duration are the stimulus', and extract leaves every stimulus as it
\* was, also when the image was resized for the model.
C5_Passthrough ==
    /\ stims = Stimuli
    /\ (last.op = "extract" /\ last.outcome.kind = "result") =>
           /\ last.outcome.result.stim = LastStim
           /\ last.outcome.result.onset = LastStim.onset
           /\ last.outcome.result.duration = LastStim.duration

C5_Witness ==
    /\ ExtractBy({Keras})
    /\ last.outcome.kind = "result"
    /\ Invoked("ImageResizingFilter.transform")
    /\ last.outcome.result.onset = 7

\* C6 as stated: a text adapter with a preprocessor exists and its extract
\* returns main_model(preprocessor([text])), the preprocessor being invoked
\* before the main model.
C6_Original ==
    /\ (InitOf({TFHubTextExtractor}) /\ Len(last.args) = 1) =>
           /\ last.outcome.kind = "ok"
           /\ adapter.cls = TFHubTextExtractor
    /\ (ExtractBy(TextClasses)
        /\ Len(adapter.preprocessor_url_or_path) > 0) =>
           /\ last.outcome.kind = "result"
           /\ last.outcome.result.data =
                  Numpy(HubCall(adapter.model,
                      HubCall(KerasLayer(adapter.preprocessor_url_or_path[1]),
                              <<LastStim.data>>)))
           /\ last.trace = <<"hub.KerasLayer", "preprocessor", "model">>

\* C7: extract of the fixed-architecture adapter on a stimulus whose array
\* is not of rank 3 raises ValueError naming the rank, before the resizing
\* filter, the normalisation and predict; no array reaches the model and
\* no result is returned.
C7_RankCheck ==
    (ExtractBy({Keras}) /\ ndim(LastStim.data) # 3) =>
        /\ last.outcome.kind = "ValueError"
        /\ last.outcome.msg = <<"Stim data must have rank 3 but got rank",
                                ndim(LastStim.data)>>
        /\ last.trace = <<>>
        /\ last.fed = <<>>

C7_Witness ==
    /\ ExtractBy({Keras})
    /\ ndim(LastStim.data) = 4
    /\ last.outcome.kind = "ValueError"
    /\ last.outcome.msg[2] = 4

\* C8 as stated: every kind of adapter, the text adapter with a
\* preprocessor included, can be constructed, has loaded exactly one model
\* when its constructor returns, and never loads one in extract.
C8_Original ==
    /\ adapter.cls # None => loads = 1
    /\ (InitOf(HubClasses) \/ (InitOf({Keras})
                               /\ KnownArchitecture(RequestedArchitecture)))
           => /\ last.outcome.kind = "ok"
              /\ last.loads = 1
    /\ last.op = "extract" => last.loads = 0

\* C9: extract never changes the instance: its configuration and model
\* handle after an extract call, successful or failing, are those before.
C9_Stateless ==
    [][last'.op = "extract" => adapter' = adapter]_vars

C9_Witness ==
    /\ ExtractBy({Keras})
    /\ last.outcome.kind = "result"
    /\ adapter.num_predictions = MaxTop

\* C10 as stated: for a rank-3 stimulus the resizing filter is applied iff
\* the shape differs from the required shape, and predict is always handed
\* a single-item batch of the required shape.
C10_Original ==
    (ExtractBy({Keras}) /\ ndim(LastStim.data) = 3) =>
        /\ Invoked("ImageResizingFilter.transform") <=>
               LastStim.data.shape # adapter.required_shape
        /\ last.fed = <<1>> \o adapter.required_shape

\* C10 amended: for a rank-3 stimulus the resizing filter is applied iff
\* the shape differs from the required shape, and the array handed to
\* predict is a single-item batch with the required height and width and
\* the channel count of the input; it has the required shape exactly when
\* the input has the required number of channels.
C10_FedShape ==
    (ExtractBy({Keras}) /\ ndim(LastStim.data) = 3) =>
        /\ Invoked("ImageResizingFilter.transform") <=>
               LastStim.data.shape # adapter.required_shape
        /\ Invoked("predict")
        /\ last.fed = <<1, adapter.required_shape[1],
                        adapter.required_shape[2],
                        LastStim.data.shape[3]>>
        /\ (last.fed = <<1>> \o adapter.required_shape) <=>
               (LastStim.data.shape[3] = adapter.required_shape[3])

C10_Witness ==
    /\ ExtractBy({Keras})
    /\ LastStim.data.shape = <<224, 224, 4>>
    /\ Invoked("ImageResizingFilter.transform")
    /\ last.fed = <<1, 224, 224, 4>>

====
